---- MODULE Spec2Model ----
(***************************************************************************)
(* azure_vm.py: a linear provisioning script.  It reads its credentials    *)
(* from the environment, picks or creates a resource group, creates a      *)
(* virtual network, subnet, network security group with ten inbound rules, *)
(* public IP, network interface and virtual machine through the provider's *)
(* management API, polls for the public IP address and writes the          *)
(* connection details to /tmp/azure-instance-info.txt.                     *)
(*                                                                         *)
(* Every provider call is blocking (begin_create_or_update(...).result()), *)
(* so a call is modelled by two steps: the script issues it (it is         *)
(* appended to calls and pending becomes TRUE) and the provider answers    *)
(* (a Return action) or raises (ApiError).                                 *)
(***************************************************************************)
EXTENDS FiniteSets, Integers, Sequences, TLC

\* ---------------------------------------------------------------- bounds
\* int(time.time()) is read from a clock that moves in 0..MaxClock.
MaxClock == 1
\* resource_groups.list() answers with at most MaxGroups existing groups.
MaxGroups == 2

\* ------------------------------------------------------ program constants
timeout == 300
interval == 10
ports == <<22, 80, 443, 3306, 5432, 6379, 27017, 5000, 8080, 8443>>
FirstPriority == 1000
PriorityStep == 10
DefaultLocation == "eastus"
InfoPath == "/tmp/azure-instance-info.txt"
SshKeyPath == "~/.ssh/id_rsa.pub"

\* Python's None, and the value os.environ.get gives for a variable that
\* is not set when no default is passed.  Not a member of any input set.
None == "<None>"

\* Python truthiness of an optional string: None and "" are false.
Truthy(v) == v # None /\ v # ""

\* -------------------------------------------------- environment variable names
SubscriptionsVar == "INSTRUQT_AZURE_SUBSCRIPTIONS"
SpnIdVar(sub) == "INSTRUQT_AZURE_SUBSCRIPTION_" \o sub \o "_SPN_ID"
SpnPasswordVar(sub) == "INSTRUQT_AZURE_SUBSCRIPTION_" \o sub \o "_SPN_PASSWORD"
TenantIdVar(sub) == "INSTRUQT_AZURE_SUBSCRIPTION_" \o sub \o "_TENANT_ID"
SubscriptionIdVar == "AZURE_SUBSCRIPTION_ID"
LocationVar == "AZURE_LOCATION"
ResourceGroupVar == "AZURE_RESOURCE_GROUP"

\* ------------------------------------------------------------ input sets
\* What the process environment can hold for a variable: nothing (None),
\* the empty string, or a value.
Subscriptions == {"subA", "subB"}
EnvSetting(var) ==
    {None, ""} \cup
    (IF var = SubscriptionsVar THEN Subscriptions
     ELSE IF var = LocationVar THEN {"westus"}
     ELSE IF var = ResourceGroupVar THEN {"my-rg"}
     ELSE {"secret"})

\* What resource_groups.list() can answer: n existing groups, n..1.
ExistingLists ==
    {[i \in 1..n |-> [name |-> "rg-" \o ToString(n + 1 - i)]] : n \in 0..MaxGroups}

\* What public_ip_addresses.get() can answer in ip_address.
Addresses == {"20.0.0.1", "20.0.0.2"}
IpAnswers == {None, ""} \cup Addresses

\* The content of ~/.ssh/id_rsa.pub, when it exists.
SshKeyFile == "ssh-rsa AAAA\n"
Strip(s) == IF s = "ssh-rsa AAAA\n" THEN "ssh-rsa AAAA" ELSE s

VARIABLES
    pc,             \* the statement the script is at
    environ_reads,  \* the environment lookups so far: <<name, value found>>
    path_checks,    \* the os.path.exists answers so far: <<path, exists>>
    instr_sub, spn_id, spn_password, tenant_id, subscription_id, location,
    rgs,            \* what resource_groups.list() answered
    rg_name, vnet_name, nsg_name, pubip_name, nic_name, vm_name,
    subnet_result, nsg_result, pubip_result, nic_result,
    port_index, priority,
    public_ip, elapsed, sleeps,
    clock,          \* the last value int(time.time()) gave
    calls,          \* the provider calls issued so far, in order
    pending,        \* TRUE while the last call of calls has not answered
    returned,       \* how many calls have answered with a result
    created,        \* the resources the provider has created for this run
    stderr,         \* the lines written to standard error
    exit_status,    \* Running, or <<n>> once the process has exited with n
    files           \* the files this run has written: [path, content]

vars == <<pc, environ_reads, path_checks, instr_sub, spn_id, spn_password, tenant_id,
          subscription_id, location, rgs, rg_name, vnet_name, nsg_name,
          pubip_name, nic_name, vm_name, subnet_result, nsg_result, pubip_result,
          nic_result, port_index, priority, public_ip, elapsed, sleeps, clock,
          calls, pending, returned, created, stderr, exit_status, files>>

creds == <<instr_sub, spn_id, spn_password, tenant_id, subscription_id, location>>
names == <<rgs, rg_name, vnet_name, nsg_name, pubip_name, nic_name, vm_name>>
results == <<subnet_result, nsg_result, pubip_result, nic_result>>
loop == <<port_index, priority>>
poll == <<public_ip, elapsed, sleeps>>
api == <<calls, pending, returned, created>>
outcome == <<stderr, exit_status, files>>

\* exit_status while the process is still running; <<n>> once it has exited.
Running == <<>>

\* A result variable the script has not assigned yet.
NoResult == [kind |-> None, rg |-> None, name |-> None, id |-> None]

Init ==
    /\ pc = "instr_sub"
    /\ environ_reads = <<>>
    /\ path_checks = <<>>
    /\ instr_sub = None /\ spn_id = None /\ spn_password = None
    /\ tenant_id = None /\ subscription_id = None /\ location = None
    /\ rgs = <<>>
    /\ rg_name = None /\ vnet_name = None /\ nsg_name = None
    /\ pubip_name = None /\ nic_name = None /\ vm_name = None
    /\ subnet_result = NoResult /\ nsg_result = NoResult
    /\ pubip_result = NoResult /\ nic_result = NoResult
    /\ port_index = 1 /\ priority = FirstPriority
    /\ public_ip = None /\ elapsed = 0 /\ sleeps = 0
    /\ clock \in 0..MaxClock
    /\ calls = <<>> /\ pending = FALSE /\ returned = 0 /\ created = {}
    /\ stderr = <<>> /\ exit_status = Running /\ files = {}

\* ------------------------------------------------------------- helpers
\* sys.exit(status) after print(message, file=sys.stderr); an uncaught
\* exception ends the interpreter the same way, with its traceback.
SysExit(status, message) ==
    /\ pc' = "exited"
    /\ exit_status' = <<status>>
    /\ stderr' = Append(stderr, message)
    /\ UNCHANGED files

\* get_env_variable as it would be with `if required and value is None`.
get_env_variable_NoneOnly(var_name, found, next) ==
    /\ environ_reads' = Append(environ_reads, <<var_name, found>>)
    /\ IF found = None
       THEN SysExit(1, "Error: Environment variable " \o var_name \o " is required.")
       ELSE pc' = next /\ UNCHANGED outcome

\* get_env_variable(var_name) with required=True, default=None, when the
\* environment holds `found` for var_name; `next` is the statement after it.
get_env_variable(var_name, found, next) ==
    /\ environ_reads' = Append(environ_reads, <<var_name, found>>)
    /\ IF ~Truthy(found)
       THEN SysExit(1, "Error: Environment variable " \o var_name \o " is required.")
       ELSE pc' = next /\ UNCHANGED outcome

\* int(time.time()): the clock never runs backwards.
TimeNow == clock..MaxClock

\* The id the provider gives a resource (the .id of a create's result).
ResourceId(kind, rg, name) ==
    "/subscriptions/" \o subscription_id \o "/resourceGroups/" \o rg
        \o "/providers/" \o kind \o "/" \o name

Resource(kind, rg, name) ==
    [kind |-> kind, rg |-> rg, name |-> name, id |-> ResourceId(kind, rg, name)]

Call(op, rg, parent, name, params) ==
    [op |-> op, rg |-> rg, parent |-> parent, name |-> name, params |-> params]

\* The script makes a provider call and blocks on it.
Issue(call) ==
    /\ ~pending
    /\ calls' = Append(calls, call)
    /\ pending' = TRUE
    /\ UNCHANGED <<returned, created>>

\* The provider answers the pending call, having created `resources`.
Answer(resources) ==
    /\ pending
    /\ pending' = FALSE
    /\ returned' = returned + 1
    /\ created' = created \cup resources
    /\ UNCHANGED calls

\* -------------------------------------------------- lines 19-29: credentials
GetInstrSub ==
    /\ pc = "instr_sub"
    /\ \E found \in EnvSetting(SubscriptionsVar) :
        /\ get_env_variable(SubscriptionsVar, found, "spn_id")
        /\ instr_sub' = IF Truthy(found) THEN found ELSE instr_sub
    /\ UNCHANGED <<spn_id, spn_password, tenant_id, subscription_id, location,
                   names, results, path_checks, loop, poll, clock, api>>

GetSpnId ==
    /\ pc = "spn_id"
    /\ \E found \in EnvSetting(SpnIdVar(instr_sub)) :
        /\ get_env_variable(SpnIdVar(instr_sub), found, "spn_password")
        /\ spn_id' = IF Truthy(found) THEN found ELSE spn_id
    /\ UNCHANGED <<instr_sub, spn_password, tenant_id, subscription_id, location,
                   names, results, path_checks, loop, poll, clock, api>>

GetSpnPassword ==
    /\ pc = "spn_password"
    /\ \E found \in EnvSetting(SpnPasswordVar(instr_sub)) :
        /\ get_env_variable(SpnPasswordVar(instr_sub), found, "tenant_id")
        /\ spn_password' = IF Truthy(found) THEN found ELSE spn_password
    /\ UNCHANGED <<instr_sub, spn_id, tenant_id, subscription_id, location,
                   names, results, path_checks, loop, poll, clock, api>>

GetTenantId ==
    /\ pc = "tenant_id"
    /\ \E found \in EnvSetting(TenantIdVar(instr_sub)) :
        /\ get_env_variable(TenantIdVar(instr_sub), found, "subscription_id")
        /\ tenant_id' = IF Truthy(found) THEN found ELSE tenant_id
    /\ UNCHANGED <<instr_sub, spn_id, spn_password, subscription_id, location,
                   names, results, path_checks, loop, poll, clock, api>>

GetSubscriptionId ==
    /\ pc = "subscription_id"
    /\ \E found \in EnvSetting(SubscriptionIdVar) :
        /\ get_env_variable(SubscriptionIdVar, found, "location")
        /\ subscription_id' = IF Truthy(found) THEN found ELSE subscription_id
    /\ UNCHANGED <<instr_sub, spn_id, spn_password, tenant_id, location,
                   names, results, path_checks, loop, poll, clock, api>>

\* os.environ.get("AZURE_LOCATION", "eastus"): the default stands in only
\* for a variable that is not set.  Lines 31-43 build the credential and
\* the three clients, which calls nothing.
GetLocation ==
    /\ pc = "location"
    /\ \E found \in EnvSetting(LocationVar) :
        /\ environ_reads' = Append(environ_reads, <<LocationVar, found>>)
        /\ location' = IF found = None THEN DefaultLocation ELSE found
    /\ pc' = "resource_group"
    /\ UNCHANGED <<instr_sub, spn_id, spn_password, tenant_id, subscription_id,
                   names, results, path_checks, loop, poll, clock, api, outcome>>

\* --------------------------------------------- lines 45-59: resource group
\* rg_name = os.environ.get("AZURE_RESOURCE_GROUP"); when it is empty or
\* not set the script asks the provider for the existing groups.
DetermineResourceGroup ==
    /\ pc = "resource_group"
    /\ \E found \in EnvSetting(ResourceGroupVar) :
        /\ environ_reads' = Append(environ_reads, <<ResourceGroupVar, found>>)
        /\ rg_name' = found
        /\ IF Truthy(found)
           THEN pc' = "vnet" /\ UNCHANGED api
           ELSE /\ pc' = "rg_list_wait"
                /\ Issue(Call("resource_groups.list", None, None, None, <<>>))
    /\ UNCHANGED <<creds, rgs, vnet_name, nsg_name, pubip_name, nic_name,
                   vm_name, results, path_checks, loop, poll, clock, outcome>>

\* rgs = list(resource_client.resource_groups.list()) has answered.
ResourceGroupsListed ==
    /\ pc = "rg_list_wait"
    /\ \E answer \in ExistingLists : rgs' = answer
    /\ Answer({})
    /\ pc' = "rg_pick"
    /\ UNCHANGED <<environ_reads, creds, rg_name, vnet_name, nsg_name,
                   pubip_name, nic_name, vm_name, results, path_checks, loop, poll, clock,
                   outcome>>

\* The script as it would be with rgs[-1] for rgs[0].
PickResourceGroup_TakesLast ==
    /\ pc = "rg_pick"
    /\ IF rgs # <<>>
       THEN /\ rg_name' = rgs[Len(rgs)].name
            /\ pc' = "vnet"
            /\ UNCHANGED <<clock, api>>
       ELSE \E now \in TimeNow :
            /\ clock' = now
            /\ rg_name' = "ArmResourceGroup-" \o ToString(now)
            /\ Issue(Call("resource_groups.create_or_update", rg_name', None,
                          rg_name', [location |-> location]))
            /\ pc' = "rg_create_wait"
    /\ UNCHANGED <<environ_reads, creds, rgs, vnet_name, nsg_name, pubip_name,
                   nic_name, vm_name, results, path_checks, loop, poll, outcome>>

\* The first listed group is taken, or a new one, named after the time, is
\* created.
PickResourceGroup ==
    /\ pc = "rg_pick"
    /\ IF rgs # <<>>
       THEN /\ rg_name' = rgs[1].name
            /\ pc' = "vnet"
            /\ UNCHANGED <<clock, api>>
       ELSE \E now \in TimeNow :
            /\ clock' = now
            /\ rg_name' = "ArmResourceGroup-" \o ToString(now)
            /\ Issue(Call("resource_groups.create_or_update", rg_name', None,
                          rg_name', [location |-> location]))
            /\ pc' = "rg_create_wait"
    /\ UNCHANGED <<environ_reads, creds, rgs, vnet_name, nsg_name, pubip_name,
                   nic_name, vm_name, results, path_checks, loop, poll, outcome>>

ResourceGroupCreated ==
    /\ pc = "rg_create_wait"
    /\ Answer({Resource("resourceGroups", rg_name, rg_name)})
    /\ pc' = "vnet"
    /\ UNCHANGED <<environ_reads, creds, names, results, path_checks, loop, poll, clock,
                   outcome>>

\* ---------------------------------- lines 61-75: virtual network and subnet
subnet_name == "ArmSubnet"
address_prefix == "10.0.0.0/16"
subnet_prefix == "10.0.0.0/24"

CreateVnet ==
    /\ pc = "vnet"
    /\ vnet_name' = "ArmVNet-" \o rg_name
    /\ Issue(Call("virtual_networks.begin_create_or_update", rg_name, None,
                  vnet_name',
                  [location |-> location, address_prefixes |-> <<address_prefix>>]))
    /\ pc' = "vnet_wait"
    /\ UNCHANGED <<environ_reads, creds, rgs, rg_name, nsg_name, pubip_name,
                   nic_name, vm_name, results, path_checks, loop, poll, clock, outcome>>

\* The script as it would be with the subnet step left out.
VnetCreated_SkipsSubnet ==
    /\ pc = "vnet_wait"
    /\ Answer({Resource("Microsoft.Network/virtualNetworks", rg_name, vnet_name)})
    /\ pc' = "nsg"
    /\ UNCHANGED <<environ_reads, creds, names, results, path_checks, loop, poll,
                   clock, outcome>>

VnetCreated ==
    /\ pc = "vnet_wait"
    /\ Answer({Resource("Microsoft.Network/virtualNetworks", rg_name, vnet_name)})
    /\ pc' = "subnet"
    /\ UNCHANGED <<environ_reads, creds, names, results, path_checks, loop, poll, clock,
                   outcome>>

CreateSubnet ==
    /\ pc = "subnet"
    /\ Issue(Call("subnets.begin_create_or_update", rg_name, vnet_name,
                  subnet_name, [address_prefix |-> subnet_prefix]))
    /\ pc' = "subnet_wait"
    /\ UNCHANGED <<environ_reads, creds, names, results, path_checks, loop, poll, clock,
                   outcome>>

SubnetCreated ==
    /\ pc = "subnet_wait"
    /\ LET subnet == Resource("Microsoft.Network/virtualNetworks", rg_name,
                              vnet_name \o "/subnets/" \o subnet_name)
       IN /\ Answer({subnet})
          /\ subnet_result' = subnet
    /\ pc' = "nsg"
    /\ UNCHANGED <<environ_reads, creds, names, nsg_result, pubip_result,
                   nic_result, path_checks, loop, poll, clock, outcome>>

\* ------------------------- lines 77-100: network security group and rules
CreateNsg ==
    /\ pc = "nsg"
    /\ \E now \in TimeNow :
        /\ clock' = now
        /\ nsg_name' = "ArmNSG-" \o rg_name \o "-" \o ToString(now)
    /\ Issue(Call("network_security_groups.begin_create_or_update", rg_name,
                  None, nsg_name', [location |-> location]))
    /\ pc' = "nsg_wait"
    /\ UNCHANGED <<environ_reads, creds, rgs, rg_name, vnet_name, pubip_name,
                   nic_name, vm_name, results, path_checks, loop, poll, outcome>>

\* nsg_result is kept; ports and priority = 1000 are set up for the loop.
NsgCreated ==
    /\ pc = "nsg_wait"
    /\ LET nsg == Resource("Microsoft.Network/networkSecurityGroups", rg_name,
                           nsg_name)
       IN /\ Answer({nsg})
          /\ nsg_result' = nsg
    /\ port_index' = 1
    /\ priority' = FirstPriority
    /\ pc' = "rules"
    /\ UNCHANGED <<environ_reads, path_checks, creds, names, subnet_result,
                   pubip_result, nic_result, poll, clock, outcome>>

rule_name(port) == "AllowTCP" \o ToString(port)

rule_params(port) ==
    [protocol |-> "Tcp", source_address_prefix |-> "*",
     destination_address_prefix |-> "*", access |-> "Allow",
     direction |-> "Inbound", priority |-> priority,
     destination_port_range |-> ToString(port), source_port_range |-> "*"]

\* One turn of `for port in ports`, up to the blocking call.
CreateRule ==
    /\ pc = "rules"
    /\ port_index <= Len(ports)
    /\ Issue(Call("security_rules.begin_create_or_update", rg_name, nsg_name,
                  rule_name(ports[port_index]), rule_params(ports[port_index])))
    /\ pc' = "rule_wait"
    /\ UNCHANGED <<environ_reads, creds, names, results, path_checks, loop, poll, clock,
                   outcome>>

\* The loop as it would be without `priority += 10`.
RuleCreated_KeepsPriority ==
    /\ pc = "rule_wait"
    /\ Answer({Resource("Microsoft.Network/networkSecurityGroups", rg_name,
                        nsg_name \o "/securityRules/"
                            \o rule_name(ports[port_index]))})
    /\ priority' = priority
    /\ port_index' = port_index + 1
    /\ pc' = IF port_index' <= Len(ports) THEN "rules" ELSE "pubip"
    /\ UNCHANGED <<environ_reads, path_checks, creds, names, results, poll,
                   clock, outcome>>

\* The rule's create has answered: priority += 10 and the loop goes on to
\* the next port, or ends.
RuleCreated ==
    /\ pc = "rule_wait"
    /\ Answer({Resource("Microsoft.Network/networkSecurityGroups", rg_name,
                        nsg_name \o "/securityRules/"
                            \o rule_name(ports[port_index]))})
    /\ priority' = priority + PriorityStep
    /\ port_index' = port_index + 1
    /\ pc' = IF port_index' <= Len(ports) THEN "rules" ELSE "pubip"
    /\ UNCHANGED <<environ_reads, path_checks, creds, names, results, poll,
                   clock, outcome>>

\* ------------------------------------------- lines 102-110: public IP
CreatePublicIp ==
    /\ pc = "pubip"
    /\ \E now \in TimeNow :
        /\ clock' = now
        /\ pubip_name' = "ArmPublicIP-" \o rg_name \o "-" \o ToString(now)
    /\ Issue(Call("public_ip_addresses.begin_create_or_update", rg_name, None,
                  pubip_name',
                  [location |-> location,
                   public_ip_allocation_method |-> "Static",
                   sku |-> "Basic"]))
    /\ pc' = "pubip_wait"
    /\ UNCHANGED <<environ_reads, creds, rgs, rg_name, vnet_name, nsg_name,
                   nic_name, vm_name, results, path_checks, loop, poll, outcome>>

PublicIpCreated ==
    /\ pc = "pubip_wait"
    /\ LET pubip == Resource("Microsoft.Network/publicIPAddresses", rg_name,
                             pubip_name)
       IN /\ Answer({pubip})
          /\ pubip_result' = pubip
    /\ pc' = "nic"
    /\ UNCHANGED <<environ_reads, creds, names, subnet_result, nsg_result,
                   nic_result, path_checks, loop, poll, clock, outcome>>

\* ------------------------------------- lines 112-124: network interface
\* The NIC as it would be with the subnet taken from the wrong result.
nic_params_WrongSubnet ==
    [location |-> location,
     ip_configurations |->
        <<[name |-> "ipconfig1",
           subnet |-> nsg_result.id,
           public_ip_address |-> pubip_result.id]>>,
     network_security_group |-> nsg_result.id]

nic_params ==
    [location |-> location,
     ip_configurations |->
        <<[name |-> "ipconfig1",
           subnet |-> subnet_result.id,
           public_ip_address |-> pubip_result.id]>>,
     network_security_group |-> nsg_result.id]

CreateNic ==
    /\ pc = "nic"
    /\ \E now \in TimeNow :
        /\ clock' = now
        /\ nic_name' = "ArmNIC-" \o rg_name \o "-" \o ToString(now)
    /\ Issue(Call("network_interfaces.begin_create_or_update", rg_name, None,
                  nic_name', nic_params))
    /\ pc' = "nic_wait"
    /\ UNCHANGED <<environ_reads, creds, rgs, rg_name, vnet_name, nsg_name,
                   pubip_name, vm_name, results, path_checks, loop, poll, outcome>>

NicCreated ==
    /\ pc = "nic_wait"
    /\ LET nic == Resource("Microsoft.Network/networkInterfaces", rg_name,
                           nic_name)
       IN /\ Answer({nic})
          /\ nic_result' = nic
    /\ pc' = "vm"
    /\ UNCHANGED <<environ_reads, creds, names, subnet_result, nsg_result,
                   pubip_result, path_checks, loop, poll, clock, outcome>>

\* ------------------------------------ lines 126-169: virtual machine
vm_params(ssh_pub_key) ==
    [location |-> location,
     vm_size |-> "Standard_A1_v5",
     image_reference |-> [publisher |-> "Canonical", offer |-> "UbuntuServer",
                          sku |-> "22_04-lts", version |-> "latest"],
     computer_name |-> vm_name',
     admin_username |-> "azureuser",
     disable_password_authentication |-> TRUE,
     public_keys |-> <<[path |-> "/home/azureuser/.ssh/authorized_keys",
                        key_data |-> ssh_pub_key]>>,
     network_interfaces |-> <<[id |-> nic_result.id, primary |-> TRUE]>>]

\* The VM is named, then the SSH public key is looked for: without it the
\* script exits, with it the VM create is issued.
CreateVm ==
    /\ pc = "vm"
    /\ \E now \in TimeNow :
        /\ clock' = now
        /\ vm_name' = "ArmVM-" \o rg_name \o "-" \o ToString(now)
    /\ \E key_exists \in BOOLEAN :
        /\ path_checks' = Append(path_checks, <<SshKeyPath, key_exists>>)
        /\ IF ~key_exists
           THEN /\ SysExit(1, "Error: SSH public key not found at "
                                  \o SshKeyPath)
                /\ UNCHANGED api
           ELSE /\ Issue(Call("virtual_machines.begin_create_or_update",
                              rg_name, None, vm_name',
                              vm_params(Strip(SshKeyFile))))
                /\ pc' = "vm_wait"
                /\ UNCHANGED outcome
    /\ UNCHANGED <<environ_reads, creds, rgs, rg_name, vnet_name, nsg_name,
                   pubip_name, nic_name, results, loop, poll>>

VmCreated ==
    /\ pc = "vm_wait"
    /\ Answer({Resource("Microsoft.Compute/virtualMachines", rg_name, vm_name)})
    /\ pc' = "get_ip"
    /\ UNCHANGED <<environ_reads, creds, names, results, path_checks, loop, poll, clock,
                   outcome>>

\* --------------------------------------- lines 171-183: public IP poll
GetPublicIp ==
    Issue(Call("public_ip_addresses.get", rg_name, None, pubip_name, <<>>))

\* Line 172: the get before the loop.
FirstGet ==
    /\ pc = "get_ip"
    /\ GetPublicIp
    /\ pc' = "get_wait"
    /\ UNCHANGED <<environ_reads, creds, names, results, path_checks, loop, poll, clock,
                   outcome>>

\* Lines 173..178: public_ip is taken from the answer; timeout, interval
\* and elapsed = 0 are set up for the loop.
FirstGetAnswered ==
    /\ pc = "get_wait"
    /\ Answer({})
    /\ \E ip_address \in IpAnswers : public_ip' = ip_address
    /\ elapsed' = 0
    /\ pc' = "poll"
    /\ UNCHANGED <<environ_reads, creds, names, results, path_checks, loop, sleeps, clock,
                   outcome>>

\* One turn of `while not public_ip and elapsed < timeout`, up to the
\* blocking get: time.sleep(interval); elapsed += interval.
\* The loop as it would be with `elapsed <= timeout`.
PollSleep_OffByOne ==
    /\ pc = "poll"
    /\ ~Truthy(public_ip) /\ elapsed <= timeout
    /\ sleeps' = sleeps + 1
    /\ elapsed' = elapsed + interval
    /\ Issue(Call("public_ip_addresses.get", rg_name, None, pubip_name, <<>>))
    /\ pc' = "poll_wait"
    /\ UNCHANGED <<environ_reads, creds, names, results, path_checks, loop,
                   public_ip, clock, outcome>>

PollSleep ==
    /\ pc = "poll"
    /\ ~Truthy(public_ip) /\ elapsed < timeout
    /\ sleeps' = sleeps + 1
    /\ elapsed' = elapsed + interval
    /\ GetPublicIp
    /\ pc' = "poll_wait"
    /\ UNCHANGED <<environ_reads, creds, names, results, path_checks, loop, public_ip, clock,
                   outcome>>

PollGetAnswered ==
    /\ pc = "poll_wait"
    /\ Answer({})
    /\ \E ip_address \in IpAnswers : public_ip' = ip_address
    /\ pc' = "poll"
    /\ UNCHANGED <<environ_reads, creds, names, results, path_checks, loop, elapsed, sleeps,
                   clock, outcome>>

\* --------------------------------------------- lines 185-218: the end
\* The script as it would be if it deleted the resource group on a timeout.
PollTimedOut_RollsBack ==
    /\ pc = "poll"
    /\ ~(~Truthy(public_ip) /\ elapsed < timeout)
    /\ ~Truthy(public_ip)
    /\ SysExit(1, "Error: Timed out waiting for public IP assignment.")
    /\ calls' = Append(calls, Call("resource_groups.begin_delete", rg_name,
                                   None, rg_name, <<>>))
    /\ returned' = returned + 1
    /\ created' = {}
    /\ UNCHANGED <<environ_reads, creds, names, results, path_checks, loop, poll,
                   clock, pending>>

\* The loop has ended without an address.
PollTimedOut ==
    /\ pc = "poll"
    /\ ~(~Truthy(public_ip) /\ elapsed < timeout)
    /\ ~Truthy(public_ip)
    /\ SysExit(1, "Error: Timed out waiting for public IP assignment.")
    /\ UNCHANGED <<environ_reads, creds, names, results, path_checks, loop, poll, clock, api>>

\* The summary as it would be with nic_name written for vm_name.
info_WrongName ==
    [resource_group |-> rg_name,
     vm_name |-> nic_name,
     location |-> location,
     public_ip |-> public_ip,
     ssh_command |-> "ssh azureuser@" \o public_ip,
     delete_command |-> "az group delete --name " \o rg_name \o " --yes --no-wait"]

info ==
    [resource_group |-> rg_name,
     vm_name |-> vm_name,
     location |-> location,
     public_ip |-> public_ip,
     ssh_command |-> "ssh azureuser@" \o public_ip,
     delete_command |-> "az group delete --name " \o rg_name \o " --yes --no-wait"]

\* The loop has ended with an address: the details are printed and saved,
\* and the script runs off its end.
SaveInfo ==
    /\ pc = "poll"
    /\ ~(~Truthy(public_ip) /\ elapsed < timeout)
    /\ Truthy(public_ip)
    /\ files' = {f \in files : f.path # InfoPath}
                    \cup {[path |-> InfoPath, content |-> info]}
    /\ pc' = "exited"
    /\ exit_status' = <<0>>
    /\ UNCHANGED <<environ_reads, creds, names, results, path_checks, loop, poll, clock, api,
                   stderr>>

\* ------------------------------------------------------ provider failure
\* The pending call raises: nothing catches it, so the interpreter prints
\* the traceback to standard error and exits with status 1.
\* The script as it would be with the call made again when it raises.
ApiError_Retries ==
    /\ pending
    /\ calls' = Append(calls, calls[Len(calls)])
    /\ UNCHANGED <<pc, environ_reads, creds, names, results, path_checks, loop,
                   poll, clock, pending, returned, created, outcome>>

\* The script as it would be with the call wrapped in `try: ... except: pass`.
ApiError_Swallowed ==
    /\ pending
    /\ pending' = FALSE
    /\ UNCHANGED <<pc, environ_reads, creds, names, results, path_checks, loop,
                   poll, clock, calls, returned, created, outcome>>

ApiError ==
    /\ pending
    /\ pending' = FALSE
    /\ SysExit(1, "Traceback (most recent call last): " \o calls[Len(calls)].op)
    /\ UNCHANGED <<environ_reads, creds, names, results, path_checks, loop, poll, clock,
                   calls, returned, created>>

Next ==
    \/ GetInstrSub \/ GetSpnId \/ GetSpnPassword \/ GetTenantId
    \/ GetSubscriptionId \/ GetLocation
    \/ DetermineResourceGroup \/ ResourceGroupsListed \/ PickResourceGroup
    \/ ResourceGroupCreated
    \/ CreateVnet \/ VnetCreated \/ CreateSubnet \/ SubnetCreated
    \/ CreateNsg \/ NsgCreated \/ CreateRule \/ RuleCreated
    \/ CreatePublicIp \/ PublicIpCreated \/ CreateNic \/ NicCreated
    \/ CreateVm \/ VmCreated
    \/ FirstGet \/ FirstGetAnswered \/ PollSleep \/ PollGetAnswered
    \/ PollTimedOut \/ SaveInfo
    \/ ApiError

Spec == Init /\ [][Next]_vars

\* ---------------------------------------------------------- properties
RgListOp == "resource_groups.list"
RgCreateOp == "resource_groups.create_or_update"
VnetOp == "virtual_networks.begin_create_or_update"
SubnetOp == "subnets.begin_create_or_update"
NsgOp == "network_security_groups.begin_create_or_update"
RuleOp == "security_rules.begin_create_or_update"
PubipOp == "public_ip_addresses.begin_create_or_update"
NicOp == "network_interfaces.begin_create_or_update"
VmOp == "virtual_machines.begin_create_or_update"
GetOp == "public_ip_addresses.get"
CreateOps == {RgCreateOp, VnetOp, SubnetOp, NsgOp, RuleOp, PubipOp, NicOp, VmOp}

OpsOf(cs) == [i \in 1..Len(cs) |-> cs[i].op]
Indices(op) == {i \in 1..Len(calls) : calls[i].op = op}
Repeat(x, n) == [i \in 1..n |-> x]
\* The calls that are not the listing of the resource groups, in order.
RECURSIVE WithoutList(_)
WithoutList(cs) ==
    IF cs = <<>> THEN <<>>
    ELSE IF Head(cs).op = RgListOp THEN WithoutList(Tail(cs))
    ELSE <<Head(cs)>> \o WithoutList(Tail(cs))

Succeeded == pc = "exited" /\ exit_status = <<0>>
Failed == pc = "exited" /\ exit_status = <<1>>
FileWritten == \E f \in files : f.path = InfoPath
\* Every call but the last has answered; the last is pending, has answered
\* or has raised.
OneAtATime ==
    /\ returned \in {Len(calls) - 1, Len(calls)} \cap Nat
    /\ pending => returned = Len(calls) - 1

NetworkAndVmOps ==
    <<VnetOp, SubnetOp, NsgOp>> \o Repeat(RuleOp, 10) \o <<PubipOp, NicOp, VmOp>>

\* C1 as stated: a run that has written the summary has issued create
\* resource group, create vnet, create subnet, create NSG, its rules, create
\* public IP, create NIC, create VM and then the polls, in that order, none
\* skipped, each issued after the one before it had answered.
C1_AsStated ==
    FileWritten =>
        /\ \E n \in 1..31 :
            OpsOf(WithoutList(calls)) =
                <<RgCreateOp>> \o NetworkAndVmOps \o Repeat(GetOp, n)
        /\ returned = Len(calls)

\* C1, amended: at any time at most the last call has not answered, and a
\* run that has written the summary has issued, in this order and all
\* answered: nothing, the group listing, or the group listing and create
\* resource group; then create vnet, subnet, NSG, ten rules, public IP, NIC,
\* VM; then 1..31 public-IP gets.
C1_LinearSequence ==
    /\ OneAtATime
    /\ FileWritten =>
        /\ \E prefix \in {<<>>, <<RgListOp>>, <<RgListOp, RgCreateOp>>} :
           \E n \in 1..31 :
            OpsOf(calls) = prefix \o NetworkAndVmOps \o Repeat(GetOp, n)
        /\ returned = Len(calls)

\* A run that created its resource group and wrote the summary.
C1_Witness == FileWritten /\ Indices(RgCreateOp) # {} /\ Indices(GetOp) # {}

\* ----------------------------------------------------------------- C2
\* The name the provider files the resource of a create call under.
FullName(c) ==
    IF c.op = SubnetOp THEN c.parent \o "/subnets/" \o c.name
    ELSE IF c.op = RuleOp THEN c.parent \o "/securityRules/" \o c.name
    ELSE c.name
\* `ref` is the id of a resource that a create call `op`, issued before call
\* i and answered, has created.
RefersTo(ref, op, i) ==
    \E j \in Indices(op) :
        /\ j < i /\ j <= returned
        /\ \E r \in created :
            r.rg = calls[j].rg /\ r.name = FullName(calls[j]) /\ r.id = ref

\* C2: whenever a NIC create has been issued (in flight or not), the
\* subnet, public IP and NSG it references were created by earlier,
\* answered calls and it carries exactly their ids; whenever a VM create has
\* been issued, the NIC it references was created by an earlier, answered
\* call and it carries exactly its id.
C2_DataDependency ==
    \A i \in 1..Len(calls) :
        /\ calls[i].op = NicOp =>
            /\ RefersTo(calls[i].params.ip_configurations[1].subnet, SubnetOp, i)
            /\ RefersTo(calls[i].params.ip_configurations[1].public_ip_address,
                        PubipOp, i)
            /\ RefersTo(calls[i].params.network_security_group, NsgOp, i)
        /\ calls[i].op = VmOp =>
            RefersTo(calls[i].params.network_interfaces[1].id, NicOp, i)

\* The VM create is in flight.
C2_Witness == pending /\ calls[Len(calls)].op = VmOp

\* ----------------------------------------------------------------- C3
RequiredRead(i) ==
    environ_reads[i][1] \notin {LocationVar, ResourceGroupVar}
EnvMissing ==
    \E i \in 1..Len(environ_reads) :
        RequiredRead(i) /\ ~Truthy(environ_reads[i][2])
ApiFailed == ~pending /\ returned < Len(calls)
KeyMissing ==
    \E i \in 1..Len(path_checks) : path_checks[i] = <<SshKeyPath, FALSE>>
\* The poll loop is over and has left public_ip empty.
LoopEndedEmpty ==
    /\ pc = "poll"
    /\ ~Truthy(public_ip)
    /\ ~(elapsed < timeout)
NoAddress ==
    /\ pc = "exited"
    /\ calls # <<>> /\ calls[Len(calls)].op = GetOp /\ returned = Len(calls)
    /\ ~Truthy(public_ip)
StepFailed == EnvMissing \/ ApiFailed \/ KeyMissing \/ NoAddress

\* C3: once a required variable was found missing, a provider call has
\* raised, the SSH key was found absent or the poll has ended without an
\* address, the process has exited with a non-zero status, something was
\* written to standard error, the summary file is not written, and a
\* missing variable is the last one read; the step after the poll loop ended
\* empty is that exit; and after the exit nothing more happens (no call is
\* issued, no file written).
C3_FailFast ==
    /\ [](StepFailed =>
            /\ pc = "exited"
            /\ exit_status # Running /\ exit_status # <<0>>
            /\ stderr # <<>>
            /\ ~FileWritten
            /\ ~pending)
    /\ [](\A i \in 1..Len(environ_reads) :
            (RequiredRead(i) /\ ~Truthy(environ_reads[i][2]))
                => i = Len(environ_reads) /\ calls = <<>>)
    /\ [][LoopEndedEmpty =>
            /\ pc' = "exited" /\ exit_status' = <<1>>
            /\ Len(stderr') = Len(stderr) + 1
            /\ calls' = calls /\ files' = files]_vars
    /\ [][pc = "exited" => UNCHANGED vars]_vars

\* A call has raised after resources were created.
C3_Witness == ApiFailed /\ Failed /\ created # {}

\* ----------------------------------------------------------------- C4
\* C4: sleeps is at most 30 and the public-IP gets at most 31, one more
\* than the sleeps; elapsed is 10 times the sleeps, so a multiple of 10 in
\* 0..300; and once public_ip holds an address no sleep is made and no call
\* issued (none at all when the first get answers with one).
C4_BoundedPoll ==
    /\ [](/\ sleeps \in 0..30
          /\ Cardinality(Indices(GetOp)) <= 31
          /\ Cardinality(Indices(GetOp)) =
                IF pc \in {"get_wait", "poll", "poll_wait"} \/ sleeps > 0
                    \/ Indices(GetOp) # {}
                THEN sleeps + 1 ELSE 0
          /\ elapsed = 10 * sleeps
          /\ elapsed \in 0..300 /\ elapsed % 10 = 0)
    /\ [][Truthy(public_ip) =>
            sleeps' = sleeps /\ calls' = calls /\ public_ip' = public_ip]_vars
    /\ [][sleeps' # sleeps =>
            /\ sleeps' = sleeps + 1 /\ elapsed' = elapsed + 10
            /\ Len(calls') = Len(calls) + 1
            /\ calls'[Len(calls')].op = GetOp]_vars

\* The thirtieth sleep has been made and its get has answered nothing.
C4_Witness == sleeps = 30 /\ pc = "poll" /\ ~Truthy(public_ip)

\* ----------------------------------------------------------------- C5
VmCreatedOk == \E i \in Indices(VmOp) : i <= returned

\* C5: the summary file exists only when the VM create has answered and
\* public_ip holds an address, and a run that has exited with both has
\* written it; the file holds that address, the group every create and get
\* of the run named and the name the VM create carried; a run whose poll
\* ended without an address has made its 30 sleeps, exited with status 1
\* and written no file.
C5_InfoFile ==
    /\ FileWritten => VmCreatedOk /\ Truthy(public_ip) /\ Succeeded
    /\ (pc = "exited" /\ VmCreatedOk /\ Truthy(public_ip)) => FileWritten
    /\ \A f \in files :
        /\ f.path = InfoPath
        /\ f.content.public_ip = public_ip
        /\ f.content.public_ip \in Addresses
        /\ \A i \in 1..Len(calls) :
            calls[i].op # RgListOp => calls[i].rg = f.content.resource_group
        /\ \A i \in Indices(VmOp) :
            /\ calls[i].name = f.content.vm_name
            /\ calls[i].params.computer_name = f.content.vm_name
    /\ NoAddress => elapsed = 300 /\ exit_status = <<1>> /\ files = {}

\* The summary was written after the address came on a later get.
C5_Witness == FileWritten /\ sleeps >= 2

\* ----------------------------------------------------------------- C6
\* C6: at most one call each is issued to create the resource group, the
\* virtual network, the subnet, the NSG, the public IP, the NIC and the VM,
\* and no two rule creates carry the same rule name; so the only call
\* issued twice in a run is the public-IP get.
C6_NoRetry ==
    /\ \A op \in CreateOps \ {RuleOp} : Cardinality(Indices(op)) <= 1
    /\ \A i, j \in Indices(RuleOp) : i # j => calls[i].name # calls[j].name
    /\ LET others == {i \in 1..Len(calls) : calls[i].op # GetOp}
       IN Cardinality({calls[i] : i \in others}) = Cardinality(others)

\* The NIC create has raised and the run is over.
C6_Witness ==
    /\ Failed /\ ApiFailed
    /\ calls[Len(calls)].op = NicOp

\* ----------------------------------------------------------------- C7
\* C7: no call other than a list, a create or a get is ever issued; every
\* resource an answered create has made is still there; and no step takes
\* a resource away or changes one.
C7_NoRollback ==
    /\ [](\A i \in 1..Len(calls) :
            /\ calls[i].op \in CreateOps \cup {RgListOp, GetOp}
            /\ (i <= returned /\ calls[i].op \in CreateOps) =>
                \E r \in created :
                    r.rg = calls[i].rg /\ r.name = FullName(calls[i]))
    /\ [][created \subseteq created']_vars

\* The poll timed out after the VM and the rest were created.
C7_Witness == Failed /\ NoAddress /\ VmCreatedOk /\ Cardinality(created) >= 15

\* ----------------------------------------------------------------- C8
RgSetting ==
    {environ_reads[i][2] :
        i \in {k \in 1..Len(environ_reads) :
                    environ_reads[k][1] = "AZURE_RESOURCE_GROUP"}}
ListAnswered == Indices(RgListOp) # {} /\ returned >= 1

\* C8: no call is issued before AZURE_RESOURCE_GROUP is looked up.  With a
\* non-empty value that value is the group and no list and no group create
\* is issued.  Otherwise the first call is the list; once a non-empty list
\* is taken, its first group is the group and no group create is issued; a
\* group create has been issued exactly when the list has answered empty and
\* the script has acted on it, and then the created group is the group.
\* Every create and get names that group, and so does the summary.
C8_ResourceGroup ==
    /\ RgSetting = {} => calls = <<>>
    /\ \A v \in RgSetting :
        /\ Truthy(v) =>
            /\ Indices(RgListOp) = {} /\ Indices(RgCreateOp) = {}
            /\ rg_name = v
        /\ ~Truthy(v) =>
            /\ Indices(RgListOp) = {1}
            /\ (ListAnswered /\ rgs # <<>> /\ pc # "rg_pick") =>
                rg_name = rgs[1].name /\ Indices(RgCreateOp) = {}
            /\ Indices(RgCreateOp) # {} <=>
                (ListAnswered /\ rgs = <<>> /\ pc # "rg_pick")
            /\ Indices(RgCreateOp) # {} =>
                /\ Indices(RgCreateOp) = {2}
                /\ rg_name = calls[2].name
                /\ \E t \in 0..MaxClock :
                    rg_name = "ArmResourceGroup-" \o ToString(t)
    /\ \A i \in 1..Len(calls) : calls[i].op # RgListOp => calls[i].rg = rg_name
    /\ \A f \in files :
        /\ f.content.resource_group = rg_name
        /\ f.content.delete_command =
            "az group delete --name " \o rg_name \o " --yes --no-wait"

\* The summary names the first of two existing groups.
C8_Witness == FileWritten /\ Len(rgs) >= 2 /\ rg_name = rgs[1].name

\* ----------------------------------------------------------------- C9
ReachedPublicIp == pc = "pubip" \/ Indices(PubipOp) # {}

\* C9: the rule creates follow the NSG create directly, one after the
\* other; the k-th (from 0) is an inbound TCP allow rule on the NSG named
\* AllowTCP<port> for the k-th port of 22, 80, 443, 3306, 5432, 6379, 27017,
\* 5000, 8080, 8443, with priority 1000 + 10k; and once the public-IP step
\* is reached there are exactly ten, all answered, all before the public-IP
\* create.
C9_SecurityRules ==
    LET fixed == <<22, 80, 443, 3306, 5432, 6379, 27017, 5000, 8080, 8443>>
        R == Indices(RuleOp)
    IN /\ Cardinality(R) <= 10
       /\ R # {} =>
            \E n \in Indices(NsgOp) :
                /\ n <= returned
                /\ R = (n + 1)..(n + Cardinality(R))
                /\ \A k \in 0..(Cardinality(R) - 1) :
                    LET c == calls[n + 1 + k] IN
                    /\ c.name = "AllowTCP" \o ToString(fixed[k + 1])
                    /\ c.parent = calls[n].name /\ c.rg = calls[n].rg
                    /\ c.params.protocol = "Tcp"
                    /\ c.params.access = "Allow"
                    /\ c.params.direction = "Inbound"
                    /\ c.params.destination_port_range = ToString(fixed[k + 1])
                    /\ c.params.priority = 1000 + 10 * k
                    /\ c.params.priority \in 1000..1090
       /\ ReachedPublicIp =>
            /\ Cardinality(R) = 10
            /\ \A i \in R : i <= returned
            /\ \A p \in Indices(PubipOp) : \A i \in R : i < p

\* The public-IP create is in flight.
C9_Witness == pending /\ calls[Len(calls)].op = PubipOp

\* ---------------------------------------------------------------- C10
\* The name of the i-th variable the script looks up.
LookupName(i) ==
    LET sub == environ_reads[1][2] IN
    <<"INSTRUQT_AZURE_SUBSCRIPTIONS",
      "INSTRUQT_AZURE_SUBSCRIPTION_" \o sub \o "_SPN_ID",
      "INSTRUQT_AZURE_SUBSCRIPTION_" \o sub \o "_SPN_PASSWORD",
      "INSTRUQT_AZURE_SUBSCRIPTION_" \o sub \o "_TENANT_ID",
      "AZURE_SUBSCRIPTION_ID", "AZURE_LOCATION", "AZURE_RESOURCE_GROUP">>[i]

\* C10: the variables are looked up in the order INSTRUQT_AZURE_SUBSCRIPTIONS,
\* the SPN_ID, SPN_PASSWORD and TENANT_ID variables named from its value,
\* AZURE_SUBSCRIPTION_ID, AZURE_LOCATION; a call has been issued only when
\* the first five were all found non-empty; one of them found unset or empty
\* is the last one looked up, and the run has exited with status 1 without
\* a call; AZURE_LOCATION never ends the run, and unset it gives eastus.
C10_RequiredEnvironment ==
    /\ Len(environ_reads) <= 7
    /\ \A i \in 1..Len(environ_reads) : environ_reads[i][1] = LookupName(i)
    /\ calls # <<>> =>
        /\ Len(environ_reads) = 7
        /\ \A i \in 1..5 : Truthy(environ_reads[i][2])
    /\ \A i \in 1..Len(environ_reads) :
        (i <= 5 /\ environ_reads[i][2] \in {None, ""}) =>
            /\ i = Len(environ_reads)
            /\ pc = "exited" /\ exit_status = <<1>>
            /\ calls = <<>>
    /\ Len(environ_reads) = 6 => pc = "resource_group" /\ exit_status = Running
    /\ Len(environ_reads) >= 6 =>
        location = IF environ_reads[6][2] = None THEN "eastus"
                   ELSE environ_reads[6][2]

\* The run ended on SPN_PASSWORD set to the empty string.
C10_Witness ==
    /\ Failed /\ calls = <<>>
    /\ Len(environ_reads) = 3 /\ environ_reads[3][2] = ""
====
